---- MODULE Spec2Model ----
(***************************************************************************)
(* State-machine model of synapse/websocket/websocket.py:                  *)
(* SynapseWebsocketProtocol (one object per transport connection) and the  *)
(* SynapseWebsocketFactory that owns the shared transaction cache.         *)
(*                                                                         *)
(* The reactor is single threaded: a handler runs without interruption     *)
(* until it returns or reaches a `yield` on an external Deferred.  Every   *)
(* action below is one such uninterrupted run: the start of a handler up   *)
(* to its first suspension, or the resumption of a suspended generator     *)
(* when the external call it waits for completes.                          *)
(*                                                                         *)
(* Transport contract used by the source (autobahn WebSocketServerProtocol)*)
(*   - onConnect runs once per connection; when it returns a value the     *)
(*     handshake is accepted and onOpen runs, when it raises the handshake *)
(*     is refused and onOpen never runs;                                   *)
(*   - sendClose(code, reason) sends a close frame carrying `code`;        *)
(*   - onMessage runs for every frame received on an open connection, as   *)
(*     soon as it arrives (the Deferred onMessage returns is not awaited); *)
(*   - onClose runs once when the connection goes away.                    *)
(***************************************************************************)
EXTENDS Integers, Sequences, FiniteSets, TLC

\* ------------------------------------------------------------------ bounds
NumConns == 2
MaxToken == 2
MaxPolls == 3
MaxMsgs == 2

\* ------------------------------------------------------- program constants
SYNC_TIMEOUT == 90000
CLOSE_NO_AT == 3001
CLOSE_UNKNOWN_AT == 3002
CLOSE_UNKNOWN_FAIL == 3003
NoSince == 0

Conns == 1..NumConns
Tokens == 1..MaxToken
Users == {"@a:hs"}
TokenIds == {1, 2}
NoRequester == [user |-> "none", access_token_id |-> 0]
Requesters == [user : Users, access_token_id : TokenIds]
ProtocolOffers == {{}, {"m.json"}, {"v1"}, {"v1", "m.json"}}
PresenceParams == {"online", "offline"}
SinceParams == {"absent", "valid", "malformed"}
FilterParams == {"absent", "inline", "inline_badjson", "inline_invalid", "named"}

VARIABLES
  conn,       \* per connection: the fields of its SynapseWebsocketProtocol
  polls,      \* per connection: one record per call of _sync, in call order
  pushes,     \* per connection: the sync batches handed to sendMessage
  scheduled,  \* per connection: calls of _sync pending in reactor.callLater
  markers,    \* per connection: user_syncing contexts its polls are inside
  reqs,       \* per connection: one record per frame received, in arrival order
  responses,  \* per connection: the response envelopes handed to sendMessage
  txns,       \* factory.txns: transaction key -> entry of the shared cache
  created     \* the event-creation calls made so far (their transaction key)

vars == <<conn, polls, pushes, scheduled, markers, reqs, responses, txns, created>>
syncVars == <<polls, pushes, scheduled, markers>>
msgVars == <<reqs, responses, txns, created>>

\* SynapseWebsocketProtocol.__init__, plus the bookkeeping of what the
\* connection has done so far (hpc: position of onConnect; ret: its result;
\* closeCodes: the codes passed to sendClose; calls: external services used;
\* filterParam, protocols: the request's filter and subprotocol offer once
\* onConnect has read them).
NewProtocol ==
  [ hpc |-> "new", ret |-> "pending", closeCodes |-> <<>>,
    access_token |-> "unread", auth |-> "pending",
    requester |-> NoRequester, since |-> NoSince, full_state |-> "unset",
    filter |-> "default", filter_id |-> "unset",
    presence |-> "unset", pendingPresence |-> "unset",
    shouldSync |-> FALSE, currentSync |-> 0,
    opened |-> FALSE, openRaised |-> FALSE, closed |-> FALSE, calls |-> {},
    filterParam |-> "unread", negotiated |-> FALSE, protocols |-> {} ]

Init ==
  /\ conn = [c \in Conns |-> NewProtocol]
  /\ polls = [c \in Conns |-> <<>>]
  /\ pushes = [c \in Conns |-> <<>>]
  /\ scheduled = [c \in Conns |-> 0]
  /\ markers = [c \in Conns |-> 0]
  /\ reqs = [c \in Conns |-> <<>>]
  /\ responses = [c \in Conns |-> <<>>]
  /\ txns = <<>>
  /\ created = <<>>

\* ------------------------------------------------------------- onConnect
sendClose(s, code) == [s EXCEPT !.closeCodes = Append(@, code)]

Returned(s, value) == [s EXCEPT !.hpc = "returned", !.ret = value]

Raised(s) == [s EXCEPT !.hpc = "raised", !.ret = "raised"]

Called(s, service) == [s EXCEPT !.calls = @ \cup {service}]

\* line 136: onConnect reads request.protocols
Offered(s, protocols) == [s EXCEPT !.negotiated = TRUE, !.protocols = protocols]

\* any offered subprotocol is accepted as m.json
NegotiateLenient(s, protocols) ==
  IF protocols # {}
  THEN Returned(Offered(s, protocols), "m.json")
  ELSE Returned(Offered(s, protocols), "None")

\* lines 136-146: subprotocol negotiation
Negotiate(s, protocols) ==
  IF protocols # {}
  THEN IF "m.json" \in protocols
       THEN Returned(Offered(s, protocols), "m.json")
       ELSE Raised(Offered(s, protocols))
  ELSE Returned(Offered(s, protocols), "None")

\* lines 134-146: the tail of onConnect once the presence is announced
AfterPresence(s, presence, protocols) ==
  Negotiate([s EXCEPT !.presence = presence, !.pendingPresence = "unset"], protocols)

\* lines 119-146: client-IP record, presence announcement, negotiation
AfterFilter(s, presence, protocols) ==
  LET s1 == Called(s, "insert_client_ip")
  IN IF presence # "offline"
     THEN [Called(s1, "set_state") EXCEPT !.hpc = "presence", !.pendingPresence = presence]
     ELSE AfterPresence(s1, presence, protocols)

\* an inline filter is taken as it is, valid or not
ResolveFilterUnchecked(s0, filterParam, presence, protocols) ==
  LET s == [s0 EXCEPT !.filterParam = filterParam]
  IN CASE filterParam = "absent" -> AfterFilter(s, presence, protocols)
       [] filterParam \in {"inline", "inline_badjson", "inline_invalid"} ->
            AfterFilter([s EXCEPT !.filter = "inline", !.filter_id = "inline"],
                        presence, protocols)
       [] filterParam = "named" -> [Called(s, "get_user_filter") EXCEPT !.hpc = "filter"]

\* lines 100-117: filter resolution
ResolveFilter(s0, filterParam, presence, protocols) ==
  LET s == [s0 EXCEPT !.filterParam = filterParam]
  IN CASE filterParam = "absent" -> AfterFilter(s, presence, protocols)
       [] filterParam = "inline" ->
            AfterFilter([s EXCEPT !.filter = "inline", !.filter_id = "inline"],
                        presence, protocols)
       [] filterParam = "inline_badjson" -> Raised(s)
       [] filterParam = "inline_invalid" -> Raised(s)
       [] filterParam = "named" -> [Called(s, "get_user_filter") EXCEPT !.hpc = "filter"]

\* line 93: request.params.get("full_state", [False])[0] is the raw string
\* of the query, or Python's False when the parameter is absent
FullStateParams == {"absent", "true", "false"}
fullStateValue(param) == IF param = "absent" THEN "False" ELSE param

\* lines 91-98: full_state and since
AfterAuth(s, full_state, sinceParam, token, filterParam, presence, protocols) ==
  LET s1 == [s EXCEPT !.full_state = fullStateValue(full_state)]
  IN CASE sinceParam = "absent" -> ResolveFilter(s1, filterParam, presence, protocols)
       [] sinceParam = "valid" ->
            ResolveFilter([s1 EXCEPT !.since = token], filterParam, presence, protocols)
       [] sinceParam = "malformed" -> Raised(s1)

\* the handshake goes on after the close for a missing credential
onConnectNoReturn(s, hasToken) ==
  LET s1 == IF hasToken THEN [s EXCEPT !.access_token = "given"]
            ELSE sendClose([s EXCEPT !.access_token = "None"], CLOSE_NO_AT)
  IN [Called(s1, "get_user_by_access_token") EXCEPT !.hpc = "auth"]

\* lines 46-75: onConnect up to the credential check
onConnect(s, hasToken) ==
  IF ~hasToken
  THEN Returned(sendClose([s EXCEPT !.access_token = "None"], CLOSE_NO_AT), "None")
  ELSE [Called(s, "get_user_by_access_token") EXCEPT !.hpc = "auth", !.access_token = "given"]

\* lines 75-98: get_user_by_access_token completes
onConnectAuth(s, outcome, requester, full_state, sinceParam, token, filterParam, presence, protocols) ==
  CASE outcome = "AuthError" ->
         Returned(sendClose([s EXCEPT !.auth = outcome], CLOSE_UNKNOWN_AT), "None")
    [] outcome = "Exception" ->
         Returned(sendClose([s EXCEPT !.auth = outcome], CLOSE_UNKNOWN_FAIL), "None")
    [] outcome = "ok" ->
         AfterAuth([s EXCEPT !.auth = outcome, !.requester = requester],
                   full_state, sinceParam, token, filterParam, presence, protocols)

\* lines 114-146: get_user_filter completes
onConnectFilter(s, outcome, presence, protocols) ==
  IF outcome = "ok"
  THEN AfterFilter([s EXCEPT !.filter = "named", !.filter_id = "named"], presence, protocols)
  ELSE Raised(s)

\* lines 131-146: presence_handler.set_state completes
onConnectPresence(s, outcome, protocols) ==
  IF outcome = "ok"
  THEN AfterPresence(s, s.pendingPresence, protocols)
  ELSE Raised(s)

OnConnect(c) ==
  /\ conn[c].hpc = "new"
  /\ ~conn[c].closed
  /\ \E hasToken \in BOOLEAN :
       conn' = [conn EXCEPT ![c] = onConnect(@, hasToken)]
  /\ UNCHANGED <<syncVars, msgVars>>

OnConnectAuth(c) ==
  /\ conn[c].hpc = "auth"
  /\ \E outcome \in {"ok", "AuthError", "Exception"}, requester \in Requesters,
        full_state \in FullStateParams, sinceParam \in SinceParams, token \in Tokens,
        filterParam \in FilterParams, presence \in PresenceParams,
        protocols \in ProtocolOffers :
       conn' = [conn EXCEPT ![c] =
                  onConnectAuth(@, outcome, requester, full_state, sinceParam, token,
                                filterParam, presence, protocols)]
  /\ UNCHANGED <<syncVars, msgVars>>

OnConnectFilter(c) ==
  /\ conn[c].hpc = "filter"
  /\ \E outcome \in {"ok", "Exception"}, presence \in PresenceParams,
        protocols \in ProtocolOffers :
       conn' = [conn EXCEPT ![c] = onConnectFilter(@, outcome, presence, protocols)]
  /\ UNCHANGED <<syncVars, msgVars>>

OnConnectPresence(c) ==
  /\ conn[c].hpc = "presence"
  /\ \E outcome \in {"ok", "Exception"}, protocols \in ProtocolOffers :
       conn' = [conn EXCEPT ![c] = onConnectPresence(@, outcome, protocols)]
  /\ UNCHANGED <<syncVars, msgVars>>

\* ------------------------------------------------------------- sync loop
\* lines 226-234: _sync reads self.requester and self.filter_id, attributes
\* that exist only once onConnect has assigned them
syncRaises(s) == s.requester = NoRequester \/ s.filter_id = "unset"

\* lines 226-268: the generator runs up to its first yield (user_syncing)
NewPoll(s, initial) ==
  [ pc |-> "user_syncing", initial |-> initial,
    affect_presence |-> (s.presence # "offline"),
    deferred |-> "pending", called |-> FALSE,
    since_token |-> NoSince, timeout |-> 0, full_state |-> "False", next_batch |-> NoSince ]

\* lines 226-268: _sync on the protocol object; n polls were started before
sync(s, n) ==
  IF syncRaises(s) THEN s
  ELSE [s EXCEPT !.calls = @ \cup {"user_syncing"}, !.currentSync = n + 1]

\* lines 148-151 and 221-224: onOpen -> startSyncingClient -> _sync(initial=True)
onOpen(s, n) ==
  sync([s EXCEPT !.opened = TRUE, !.openRaised = syncRaises(s), !.shouldSync = TRUE], n)

OnOpen(c) ==
  /\ conn[c].hpc = "returned"
  /\ ~conn[c].opened
  /\ ~conn[c].closed
  /\ conn' = [conn EXCEPT ![c] = onOpen(@, Len(polls[c]))]
  /\ polls' = [polls EXCEPT ![c] =
        IF syncRaises(conn[c]) THEN @ ELSE Append(@, NewPoll(conn[c], TRUE))]
  /\ UNCHANGED <<pushes, scheduled, markers, msgVars>>

\* lines 285 and 226-268: the reactor runs the _sync scheduled by callLater
CallLaterSync(c) ==
  /\ scheduled[c] > 0
  /\ Len(polls[c]) < MaxPolls
  /\ scheduled' = [scheduled EXCEPT ![c] = @ - 1]
  /\ conn' = [conn EXCEPT ![c] = sync(@, Len(polls[c]))]
  /\ polls' = [polls EXCEPT ![c] =
        IF syncRaises(conn[c]) THEN @ ELSE Append(@, NewPoll(conn[c], FALSE))]
  /\ UNCHANGED <<pushes, markers, msgVars>>

\* the marker stays when the block is left by a cancellation
leaveContextKeepsOnCancel(held, path) == IF path = "cancelled" THEN held ELSE held - 1

\* lines 252-265: `with context` is left, by the return of the sync call
\* (result or failure) or by the CancelledError thrown into the generator
leaveContext(held, path) == held - 1

\* line 257: the timeout of the sync call
syncTimeout(initial) == IF initial THEN 0 ELSE SYNC_TIMEOUT
\* line 258 with full_state kept on every poll
syncFullStateEveryPoll(s, initial) == s.full_state
\* line 258: the full_state of the sync call
syncFullState(s, initial) == IF initial THEN s.full_state ELSE "False"

\* lines 249-259: user_syncing hands over the context; the generator enters
\* it and calls wait_for_sync_for_user
UserSyncingReturns(c, i) ==
  /\ i \in DOMAIN polls[c]
  /\ polls[c][i].pc = "user_syncing"
  /\ \E outcome \in {"ok", "Exception"} :
       IF outcome = "ok"
       THEN /\ polls' = [polls EXCEPT ![c][i] =
                  [@ EXCEPT !.pc = "sync", !.called = TRUE,
                            !.since_token = conn[c].since,
                            !.timeout = syncTimeout(polls[c][i].initial),
                            !.full_state = syncFullState(conn[c], polls[c][i].initial)]]
            /\ markers' = [markers EXCEPT ![c] = @ + 1]
            /\ conn' = [conn EXCEPT ![c].calls = @ \cup {"wait_for_sync_for_user"}]
       ELSE /\ polls' = [polls EXCEPT ![c][i] =
                  [@ EXCEPT !.pc = "failed",
                            !.deferred = IF @ = "pending" THEN "failed" ELSE @]]
            /\ UNCHANGED <<markers, conn>>
  /\ UNCHANGED <<pushes, scheduled, msgVars>>

\* line 272
syncCallbackDelivers(s) == s.shouldSync

\* the callback leaves the cursor where it was
syncCallbackKeepsSince(s, next_batch) == s.since

\* line 273: self.since = result.next_batch
syncCallbackSince(s, next_batch) == next_batch

\* the callback schedules no further poll
callLaterNever(pending) == pending

\* the callback schedules the next poll twice
callLaterTwice(pending) == pending + 2

\* line 285: reactor.callLater(0, self._sync), given the calls already pending
callLater(pending) == pending + 1

\* a failed poll schedules the next one
errbackRetries(pending) == pending + 1

\* lines 260-266: the failure is logged, returnValue(sync_result) then fails
\* on the unbound name and the Deferred takes the errback path, which has no
\* handler: no _sync is scheduled
errback(pending) == pending

\* lines 254-287: wait_for_sync_for_user completes; the context is left; on
\* success the Deferred fires and _sync_callback runs
SyncReturns(c, i) ==
  /\ i \in DOMAIN polls[c]
  /\ polls[c][i].pc = "sync"
  /\ markers' = [markers EXCEPT ![c] = leaveContext(@, "returned")]
  /\ UNCHANGED msgVars
  /\ \E outcome \in {"ok", "Exception"}, nb \in {t \in Tokens : t >= conn[c].since} :
       IF outcome = "ok"
       THEN IF polls[c][i].deferred = "pending"
            THEN /\ polls' = [polls EXCEPT ![c][i] =
                       [@ EXCEPT !.pc = "done", !.deferred = "called", !.next_batch = nb]]
                 /\ IF syncCallbackDelivers(conn[c])
                    THEN /\ conn' = [conn EXCEPT ![c].since = syncCallbackSince(conn[c], nb)]
                         /\ pushes' = [pushes EXCEPT ![c] =
                                Append(@, [poll |-> i, next_batch |-> nb])]
                         /\ scheduled' = [scheduled EXCEPT ![c] = callLater(@)]
                    ELSE UNCHANGED <<conn, pushes, scheduled>>
            ELSE /\ polls' = [polls EXCEPT ![c][i] =
                       [@ EXCEPT !.pc = "done", !.next_batch = nb]]
                 /\ UNCHANGED <<conn, pushes, scheduled>>
       ELSE /\ polls' = [polls EXCEPT ![c][i] =
                  [@ EXCEPT !.pc = "failed",
                            !.deferred = IF @ = "pending" THEN "failed" ELSE @]]
            /\ scheduled' = [scheduled EXCEPT ![c] =
                  IF polls[c][i].deferred = "pending" THEN errback(@) ELSE @]
            /\ UNCHANGED <<conn, pushes>>

\* lines 215-219.  Deferred.cancel() on the Deferred of an inlineCallbacks
\* generator: a Twisted that cancels the Deferred the generator waits on
\* ("inner") resumes the generator with CancelledError at once; an older one
\* ("outer") fails the outer Deferred and leaves the generator waiting.
cancelPoll(p, mode) ==
  IF p.deferred # "pending"
  THEN p
  ELSE IF mode = "inner"
       THEN [p EXCEPT !.pc = "failed", !.deferred = "cancelled"]
       ELSE [p EXCEPT !.deferred = "cancelled"]

\* the close leaves the session marked as syncing
onCloseKeepsSyncing(s) == [s EXCEPT !.closed = TRUE]

onClose(s) == [s EXCEPT !.shouldSync = FALSE, !.closed = TRUE]

OnClose(c) ==
  /\ conn[c].hpc # "new"
  /\ ~conn[c].closed
  /\ conn' = [conn EXCEPT ![c] = onClose(@)]
  /\ LET i == conn[c].currentSync
     IN IF i = 0
        THEN UNCHANGED <<polls, markers>>
        ELSE \E mode \in {"inner", "outer"} :
               /\ polls' = [polls EXCEPT ![c][i] = cancelPoll(@, mode)]
               /\ markers' = [markers EXCEPT ![c] =
                     IF polls[c][i].pc = "sync" /\ polls'[c][i].pc = "failed"
                     THEN leaveContext(@, "cancelled") ELSE @]
  /\ UNCHANGED <<pushes, scheduled, msgVars>>

\* -------------------------------------------------------------- envelopes
\* An inbound frame: binary, text that is not JSON, or a JSON envelope whose
\* keys may be missing ("missing").  params.keys are the keys params holds.
NoParams ==
  [ has |-> FALSE, keys |-> {}, presence |-> "", status_str |-> TRUE,
    has_timeout |-> FALSE, timeout |-> 0, typing |-> FALSE, event_type |-> "" ]

Params(keys) == [NoParams EXCEPT !.has = TRUE, !.keys = keys]

Frame(kind, id, method, params) ==
  [kind |-> kind, id |-> id, method |-> method, params |-> params]

supported_methods == {"ping", "presence", "read_markers", "send", "state", "typing"}

NoExc == [type |-> "", errcode |-> "", msg |-> ""]
SynapseError(errcode, msg) == [type |-> "SynapseError", errcode |-> errcode, msg |-> msg]
Exception(msg) == [type |-> "Exception", errcode |-> "M_UNKNOWN", msg |-> msg]
KeyError == Exception("KeyError")
AttributeError == Exception("AttributeError")
\* what a failing external service raises
Failure(outcome) ==
  IF outcome = "SynapseError" THEN SynapseError("M_FORBIDDEN", "refused")
  ELSE Exception("failure")

NoResp == [id |-> "", shape |-> "none", errcode |-> "", error |-> "", event_id |-> 0]
\* {"id": id, "result": {}} and {"id": id, "result": {"event_id": e}}
ResultEnvelope(id, event_id) == [NoResp EXCEPT !.id = id, !.shape = "result", !.event_id = event_id]
\* {"id": id, "error": {"errcode": c, "error": e}}
ErrorEnvelope(id, errcode, error) ==
  [NoResp EXCEPT !.id = id, !.shape = "error", !.errcode = errcode, !.error = error]
\* {"id": id, "error": {}}
EmptyErrorEnvelope(id) == [NoResp EXCEPT !.id = id, !.shape = "empty_error"]

\* The result of running a generator up to its next suspension or its end.
Await(pc) == [tag |-> "await", pc |-> pc, resp |-> NoResp, exc |-> NoExc]
Return(resp) == [tag |-> "return", pc |-> "", resp |-> resp, exc |-> NoExc]
Raise(exc) == [tag |-> "raise", pc |-> "", resp |-> NoResp, exc |-> exc]

\* a handler builds its envelope from msg["id"]
Ret(m, resp) == IF m.id = "missing" THEN Raise(KeyError) ELSE Return(resp)

\* lines 211-213
genTxnKey(s, msg_id) == <<s.requester.user, s.requester.access_token_id, msg_id>>
\* the key also tells the methods apart
txnKeyPerMethod(s, m) == <<genTxnKey(s, m.id), m.method>>
\* lines 350 and 385: the key both handlers pass to fetch_or_execute
txnKey(s, m) == genTxnKey(s, m.id)

\* a cache per connection instead of one per factory
cacheOfConnection(c) == c

\* lines 466-467 and 349, 384: the cache connection c uses is the factory's
cacheOf(c) == "factory"

\* only state runs under the cache
useCacheStateOnly(method) == method = "state"

\* only send runs under the cache
useCacheSendOnly(method) == method = "send"

\* lines 348 and 383: the handlers that run under the cache
useCache(method) == method \in {"send", "state"}

\* lines 361-371 and 406-419: the arguments of an event-creation call
Creation(s, m, service) == [service |-> service, requester |-> s.requester, txn_id |-> m.id]

\* line 435
DEFAULT_TYPING_TIMEOUT == 30000
MAX_TYPING_TIMEOUT == 120000
Min(a, b) == IF a < b THEN a ELSE b
\* the requested timeout is forwarded as it is
typingTimeoutUnclamped(params) ==
  IF params.has_timeout THEN params.timeout ELSE DEFAULT_TYPING_TIMEOUT

typingTimeout(params) ==
  Min(IF params.has_timeout THEN params.timeout ELSE DEFAULT_TYPING_TIMEOUT,
      MAX_TYPING_TIMEOUT)

\* --------------------------------------------------------------- handlers
\* _handle_presence without the check for further keys
handle_presence_any_keys(s, m) ==
  LET params == m.params
  IN IF ~params.has THEN Raise(KeyError)
     ELSE IF "presence" \notin params.keys
          THEN Raise(SynapseError("M_UNKNOWN", "Unable to parse state"))
     ELSE IF "status_msg" \in params.keys /\ ~params.status_str
          THEN Raise(SynapseError("M_UNKNOWN", "status_msg must be a string."))
     ELSE IF s.requester = NoRequester THEN Raise(AttributeError)
     ELSE Await("set_state")

\* lines 294-315: _handle_presence up to set_state
handle_presence(s, m) ==
  LET params == m.params
  IN IF ~params.has THEN Raise(KeyError)
     ELSE IF "presence" \notin params.keys
          THEN Raise(SynapseError("M_UNKNOWN", "Unable to parse state"))
     ELSE IF "status_msg" \in params.keys /\ ~params.status_str
          THEN Raise(SynapseError("M_UNKNOWN", "status_msg must be a string."))
     ELSE IF params.keys \ {"presence", "status_msg"} # {}
          THEN Raise(SynapseError("M_BAD_JSON", "Too many keys"))
     ELSE IF s.requester = NoRequester THEN Raise(AttributeError)
     ELSE Await("set_state")

\* lines 319-323
handle_read_markers(s, m) ==
  IF s.requester = NoRequester THEN Raise(AttributeError) ELSE Await("bump")

\* lines 357-359: _handle_send with use_cached=False, up to the bump
handle_send(s, m) ==
  IF ~m.params.has THEN Raise(KeyError) ELSE Await("bump")

\* line 392: _handle_state with use_cached=False, up to the bump
handle_state(s, m) == Await("bump")

\* lines 430-437
handle_typing(s, m) ==
  IF ~m.params.has THEN Raise(KeyError)
  ELSE IF s.requester = NoRequester THEN Raise(AttributeError)
  ELSE Await("bump")

\* the fallback answers with another errcode
unknown_method_unknown(m) == Ret(m, ErrorEnvelope(m.id, "M_UNKNOWN", "Unknown method"))

\* lines 182-188: the fallback of supported_methods.get
unknown_method(m) == Ret(m, ErrorEnvelope(m.id, "M_BAD_JSON", "Unknown method"))

\* lines 180-189: the handler chosen for msg["method"], run to its first
\* suspension (for send and state: the body run under the cache)
handlerStart(s, m) ==
  CASE m.method = "ping" -> Ret(m, ResultEnvelope(m.id, 0))
    [] m.method = "presence" -> handle_presence(s, m)
    [] m.method = "read_markers" -> handle_read_markers(s, m)
    [] m.method = "send" -> handle_send(s, m)
    [] m.method = "state" -> handle_state(s, m)
    [] m.method = "typing" -> handle_typing(s, m)
    [] OTHER -> unknown_method(m)

\* lines 325-343: _handle_read_markers after an external call returned
read_markers_resume(m, pc) ==
  LET params == m.params
      fully == IF "m.fully_read" \in params.keys
               THEN IF "room_id" \in params.keys THEN Await("read_marker") ELSE Raise(KeyError)
               ELSE Ret(m, ResultEnvelope(m.id, 0))
  IN CASE pc = "bump" ->
            IF ~params.has THEN Raise(KeyError)
            ELSE IF "m.read" \in params.keys
                 THEN IF "room_id" \in params.keys THEN Await("receipt") ELSE Raise(KeyError)
                 ELSE fully
       [] pc = "receipt" -> fully
       [] pc = "read_marker" -> Ret(m, ResultEnvelope(m.id, 0))

\* lines 361-378
send_resume(m, pc, event_id) ==
  CASE pc = "bump" ->
         IF {"event_type", "content", "room_id"} \subseteq m.params.keys
         THEN Await("create") ELSE Raise(KeyError)
    [] pc = "create" -> Return(ResultEnvelope(m.id, event_id))

\* lines 394-427; `event` is what the service returned (None: "none")
state_resume(m, pc, outcome, event_id) ==
  LET params == m.params
  IN CASE pc = "bump" ->
            IF ~params.has THEN Raise(KeyError)
            ELSE IF ~({"event_type", "content", "room_id", "state_key"} \subseteq params.keys)
                 THEN Raise(KeyError)
            ELSE IF params.event_type = "m.room.member"
                 THEN Await("update_membership") ELSE Await("create")
       [] pc \in {"create", "update_membership"} ->
            IF outcome = "none"
            THEN Return(EmptyErrorEnvelope(m.id))
            ELSE Return(ResultEnvelope(m.id, event_id))

\* lines 439-453
typing_resume(m, pc) ==
  LET params == m.params
  IN CASE pc = "bump" ->
            IF "typing" \notin params.keys THEN Raise(KeyError)
            ELSE IF "room_id" \notin params.keys THEN Raise(KeyError)
            ELSE IF params.typing THEN Await("started_typing") ELSE Await("stopped_typing")
       [] pc \in {"started_typing", "stopped_typing"} -> Ret(m, ResultEnvelope(m.id, 0))

\* lines 315-317
presence_resume(m, pc) == Ret(m, ResultEnvelope(m.id, 0))

\* a suspended handler resumes: the external call it awaited has completed
handlerResume(r, outcome) ==
  LET m == r.msg
  IN IF outcome \in {"SynapseError", "Exception"} THEN Raise(Failure(outcome))
     ELSE CASE m.method = "presence" -> presence_resume(m, r.pc)
            [] m.method = "read_markers" -> read_markers_resume(m, r.pc)
            [] m.method = "send" -> send_resume(m, r.pc, r.event_id)
            [] m.method = "state" -> state_resume(m, r.pc, outcome, r.event_id)
            [] m.method = "typing" -> typing_resume(m, r.pc)

\* lines 191-209: what onMessage hands to sendMessage for a finished handler
Envelope(m, step) ==
  IF step.tag = "return" THEN step.resp
  ELSE ErrorEnvelope(m.id, step.exc.errcode, step.exc.msg)

\* lines 194-209: building the error envelope reads msg["id"]; without an id
\* the except clause itself raises and nothing is sent
Escapes(m, step) == step.tag = "raise" /\ m.id = "missing"

Sent(i, env) == [req |-> i, env |-> env]

NewReq(f) ==
  [ msg |-> f, pc |-> "start", executor |-> FALSE, key |-> <<>>, svc |-> <<>>,
    event_id |-> 0, fwd_timeout |-> -1 ]

\* the request record after its generator ran one more stretch
Advance(r, step) ==
  IF step.tag = "await"
  THEN [r EXCEPT !.pc = step.pc, !.svc = Append(@, step.pc),
                 !.event_id = IF step.pc \in {"create", "update_membership"}
                              THEN Len(created) + 1 ELSE @,
                 !.fwd_timeout = IF step.pc = "started_typing"
                                 THEN typingTimeout(r.msg.params) ELSE @]
  ELSE [r EXCEPT !.pc = IF Escapes(r.msg, step) THEN "escaped" ELSE "responded"]

Creates(step) == step.tag = "await" /\ step.pc \in {"create", "update_membership"}

\* ------------------------------------------------------ transaction cache
\* HttpTransactionCache.fetch_or_execute(key, fn): the first call for a key
\* runs fn and records its outcome under the key; every other call for the
\* key observes that one execution's outcome.
TxnRunning == [state |-> "running", step |-> Await("")]
TxnDone(step) == [state |-> "done", step |-> step]

\* requests that observe the execution of key k started by request i of c
Observes(c, i, k, d, j) ==
  \/ d = c /\ j = i
  \/ reqs[d][j].pc = "txn" /\ reqs[d][j].key = k

\* the execution of request i of c (now r) ended with `step`: the outcome is
\* recorded and every observer's onMessage sends its envelope
Commit(c, i, r, step) ==
  LET k == r.key
      idx(d) == SelectSeq([j \in 1..Len(reqs[d]) |-> j], LAMBDA j : Observes(c, i, k, d, j))
  IN /\ txns' = [txns EXCEPT ![k] = TxnDone(step)]
     /\ reqs' = [d \in Conns |->
                  [j \in 1..Len(reqs[d]) |->
                    IF Observes(c, i, k, d, j)
                    THEN [(IF d = c /\ j = i THEN r ELSE reqs[d][j]) EXCEPT !.pc = "responded"]
                    ELSE reqs[d][j]]]
     /\ responses' = [d \in Conns |->
                  responses[d] \o
                  [n \in 1..Len(idx(d)) |-> Sent(idx(d)[n], Envelope(reqs[d][idx(d)[n]].msg, step))]]

\* ---------------------------------------------------------------- onMessage
\* lines 345-355 / 380-390: _handle_send and _handle_state with use_cached
Cached(c, f) ==
  LET s == conn[c]
      i == Len(reqs[c]) + 1
      k == <<cacheOf(c), txnKey(s, f)>>
      r == [NewReq(f) EXCEPT !.key = k]
  IN IF k \in DOMAIN txns
     THEN IF txns[k].state = "done"
          THEN /\ reqs' = [reqs EXCEPT ![c] = Append(@, [r EXCEPT !.pc = "responded"])]
               /\ responses' = [responses EXCEPT ![c] =
                                  Append(@, Sent(i, Envelope(f, txns[k].step)))]
               /\ UNCHANGED <<txns, created>>
          ELSE /\ reqs' = [reqs EXCEPT ![c] = Append(@, [r EXCEPT !.pc = "txn"])]
               /\ UNCHANGED <<responses, txns, created>>
     ELSE LET step == handlerStart(s, f)
              r2 == [Advance(r, step) EXCEPT !.executor = TRUE]
          IN IF step.tag = "await"
             THEN /\ reqs' = [reqs EXCEPT ![c] = Append(@, r2)]
                  /\ txns' = (k :> TxnRunning) @@ txns
                  /\ UNCHANGED <<responses, created>>
             ELSE /\ reqs' = [reqs EXCEPT ![c] = Append(@, r2)]
                  /\ txns' = (k :> TxnDone(step)) @@ txns
                  /\ responses' = [responses EXCEPT ![c] = Append(@, Sent(i, Envelope(f, step)))]
                  /\ UNCHANGED created

\* only binary frames are dropped
dropsBinaryOnly(f) == f.kind = "binary"

\* lines 155-169: a binary frame, or text that json.loads refuses, is dropped
drops(f) == f.kind # "json"

\* lines 153-209: one frame arrives; its handler runs to its first suspension
Receive(c, f) ==
  LET s == conn[c]
      i == Len(reqs[c]) + 1
      r == NewReq(f)
  IN IF drops(f)
     THEN /\ reqs' = [reqs EXCEPT ![c] = Append(@, [r EXCEPT !.pc = "ignored"])]
          /\ UNCHANGED <<responses, txns, created>>
     ELSE IF f.method = "missing"
     THEN /\ reqs' = [reqs EXCEPT ![c] = Append(@, [r EXCEPT !.pc = "escaped"])]
          /\ UNCHANGED <<responses, txns, created>>
     ELSE IF useCache(f.method) /\ f.id # "missing" /\ s.requester # NoRequester
     THEN Cached(c, f)
     ELSE LET step == IF useCache(f.method)
                      THEN Raise(IF f.id = "missing" THEN KeyError ELSE AttributeError)
                      ELSE handlerStart(s, f)
          IN /\ reqs' = [reqs EXCEPT ![c] = Append(@, Advance(r, step))]
             /\ responses' = [responses EXCEPT ![c] =
                   IF step.tag = "await" \/ Escapes(f, step)
                   THEN @ ELSE Append(@, Sent(i, Envelope(f, step)))]
             /\ UNCHANGED <<txns, created>>

RECURSIVE SumLen(_, _)
SumLen(f, S) ==
  IF S = {} THEN 0
  ELSE LET d == CHOOSE x \in S : TRUE IN Len(f[d]) + SumLen(f, S \ {d})

\* the frames received so far by all the connections
Received == SumLen(reqs, Conns)

OnMessage(c, frames) ==
  /\ conn[c].opened
  /\ ~conn[c].closed
  /\ Received < MaxMsgs
  /\ \E f \in frames : Receive(c, f)
  /\ UNCHANGED <<conn, syncVars>>

Services ==
  {"set_state", "bump", "receipt", "read_marker", "create", "update_membership",
   "started_typing", "stopped_typing"}

\* what the external call a request awaits can complete with
Outcomes(pc) ==
  IF pc = "update_membership" THEN {"ok", "none", "SynapseError", "Exception"}
  ELSE {"ok", "SynapseError", "Exception"}

\* the external call awaited by request i of connection c completes and the
\* generator runs on to its next suspension or to the end of onMessage
ExternalReturns(c, i) ==
  /\ i \in DOMAIN reqs[c]
  /\ reqs[c][i].pc \in Services
  /\ \E outcome \in Outcomes(reqs[c][i].pc) :
       LET r == reqs[c][i]
           m == r.msg
           step == handlerResume(r, outcome)
           r2 == Advance(r, step)
       IN /\ conn' = IF m.method = "presence" /\ r.pc = "set_state" /\ outcome = "ok"
                     THEN [conn EXCEPT ![c].presence = m.params.presence]
                     ELSE conn
          /\ created' = IF Creates(step)
                        THEN Append(created, Creation(conn[c], m, step.pc)) ELSE created
          /\ IF step.tag = "await"
             THEN /\ reqs' = [reqs EXCEPT ![c][i] = r2]
                  /\ UNCHANGED <<responses, txns>>
             ELSE IF r.executor
             THEN Commit(c, i, r2, step)
             ELSE /\ reqs' = [reqs EXCEPT ![c][i] = r2]
                  /\ responses' = [responses EXCEPT ![c] =
                        IF Escapes(m, step) THEN @ ELSE Append(@, Sent(i, Envelope(m, step)))]
                  /\ UNCHANGED txns
  /\ UNCHANGED syncVars

\* ------------------------------------------------------------ the inputs
Ids == {"m1", "m2"}
J(id, method, params) == Frame("json", id, method, params)
PresenceParamsIn ==
  { [Params({"presence"}) EXCEPT !.presence = "unavailable"],
    [Params({"presence", "status_msg"}) EXCEPT !.presence = "offline"],
    [Params({"presence", "status_msg"}) EXCEPT !.presence = "offline", !.status_str = FALSE],
    [Params({"presence", "device"}) EXCEPT !.presence = "unavailable"],
    Params({"status_msg"}),
    NoParams }
ReadMarkerParamsIn ==
  { Params({"room_id", "m.read", "m.fully_read"}), Params({"room_id", "m.fully_read"}),
    Params({"m.read"}), Params({}), NoParams }
SendParamsIn ==
  { [Params({"event_type", "content", "room_id"}) EXCEPT !.event_type = "m.room.message"],
    Params({"content"}), NoParams }
StateParamsIn ==
  { [Params({"event_type", "content", "room_id", "state_key"}) EXCEPT !.event_type = "m.room.topic"],
    [Params({"event_type", "content", "room_id", "state_key"}) EXCEPT !.event_type = "m.room.member"],
    [Params({"event_type", "content", "room_id"}) EXCEPT !.event_type = "m.room.topic"],
    NoParams }
TypingParamsIn ==
  { [Params({"room_id", "typing", "timeout"}) EXCEPT !.typing = TRUE, !.has_timeout = TRUE,
                                                     !.timeout = 999999999],
    [Params({"room_id", "typing", "timeout"}) EXCEPT !.typing = TRUE, !.has_timeout = TRUE,
                                                     !.timeout = 5000],
    [Params({"room_id", "typing"}) EXCEPT !.typing = TRUE],
    [Params({"room_id", "typing"}) EXCEPT !.typing = FALSE],
    Params({"room_id"}), NoParams }
ParamsIn(method) ==
  CASE method = "presence" -> PresenceParamsIn
    [] method = "read_markers" -> ReadMarkerParamsIn
    [] method = "send" -> SendParamsIn
    [] method = "state" -> StateParamsIn
    [] method = "typing" -> TypingParamsIn
    [] OTHER -> {NoParams}

\* every kind of frame a client can send
Frames ==
  { Frame("binary", "missing", "missing", NoParams),
    Frame("notjson", "missing", "missing", NoParams) }
  \cup UNION { { J(id, method, p) : p \in ParamsIn(method) } :
                 id \in Ids, method \in supported_methods \cup {"bogus", "missing"} }
  \cup { J("missing", method, p) : method \in {"ping", "send"}, p \in SendParamsIn }

\* the frames of the writes that go through the transaction cache
TxnFrames ==
  { f \in Frames : /\ f.method \in {"send", "state"} /\ f.id # "missing" /\ f.params.has
                   /\ f.method = "state" => "state_key" \in f.params.keys }

\* commands that arrive while the sync loop runs: some succeed, some fail
SyncFrames ==
  { f \in Frames : /\ f.id \in {"m1", "missing"}
                   /\ f.method \in {"ping", "presence", "send", "missing"}
                   /\ \/ ~f.params.has
                      \/ f.params.keys \in {{"presence"}, {"presence", "device"}} }

\* ------------------------------------------------------- initial sessions
\* a connection that was lost before its handshake began
GoneProtocol == onClose(NewProtocol)

\* the protocol object of a connection whose handshake succeeded and whose
\* onOpen has run: credential accepted, inline filter, no subprotocol offered
OpenSession(requester, full_state, sinceParam, presence) ==
  LET s1 == onConnectAuth(onConnect(NewProtocol, TRUE), "ok", requester, full_state,
                          sinceParam, 1, "inline", presence, {})
      s2 == IF s1.hpc = "presence" THEN onConnectPresence(s1, "ok", {}) ELSE s1
  IN onOpen(s2, 0)

TheRequester == [user |-> "@a:hs", access_token_id |-> 1]

OpenSessions ==
  { OpenSession(TheRequester, fs, sp, pr) :
      fs \in FullStateParams, sp \in {"absent", "valid"}, pr \in PresenceParams }

\* the open sessions as far as commands can tell them apart
MsgSessions == { OpenSession(TheRequester, "absent", "absent", pr) : pr \in PresenceParams }

InitRest ==
  /\ polls = [c \in Conns |->
                IF conn[c].opened /\ ~conn[c].openRaised
                THEN <<NewPoll(conn[c], TRUE)>> ELSE <<>>]
  /\ pushes = [c \in Conns |-> <<>>]
  /\ scheduled = [c \in Conns |-> 0]
  /\ markers = [c \in Conns |-> 0]
  /\ reqs = [c \in Conns |-> <<>>]
  /\ responses = [c \in Conns |-> <<>>]
  /\ txns = <<>>
  /\ created = <<>>

\* one connection arrives; the factory's other connections have gone
InitOne ==
  /\ conn = [c \in Conns |-> IF c = 1 THEN NewProtocol ELSE GoneProtocol]
  /\ InitRest

\* one connection is open; the factory's other connections have gone
InitSession ==
  /\ \E s \in OpenSessions : conn = [c \in Conns |-> IF c = 1 THEN s ELSE GoneProtocol]
  /\ InitRest

\* one connection is open (commands do not read its cursor or full_state)
InitMsg ==
  /\ \E s \in MsgSessions : conn = [c \in Conns |-> IF c = 1 THEN s ELSE GoneProtocol]
  /\ InitRest

\* every connection of the factory is open
InitOpen ==
  /\ conn \in [Conns -> {OpenSession(rq, "absent", "absent", "offline") : rq \in Requesters}]
  /\ conn[1].requester = TheRequester
  /\ InitRest

Handshake(c) ==
  \/ OnConnect(c)
  \/ OnConnectAuth(c)
  \/ OnConnectFilter(c)
  \/ OnConnectPresence(c)
  \/ OnOpen(c)

SyncLoop(c) ==
  \/ CallLaterSync(c)
  \/ \E i \in 1..MaxPolls : UserSyncingReturns(c, i)
  \/ \E i \in 1..MaxPolls : SyncReturns(c, i)

Messages(c, frames) ==
  \/ OnMessage(c, frames)
  \/ \E i \in 1..MaxMsgs : ExternalReturns(c, i)

Next ==
  \E c \in Conns :
    \/ Handshake(c)
    \/ SyncLoop(c)
    \/ Messages(c, Frames)
    \/ OnClose(c)

\* the whole protocol, every connection starting from its construction
Spec == Init /\ [][Next]_vars

\* the handshake and the sync loop of one connection
HandshakeNext == \E c \in Conns : Handshake(c) \/ SyncLoop(c) \/ OnClose(c)
HandshakeSpec == InitOne /\ [][HandshakeNext]_vars

\* the commands of one open session
MsgNext == \E c \in Conns : Messages(c, Frames) \/ OnClose(c)
MsgSpec == InitMsg /\ [][MsgNext]_vars

\* the sync loop of one open session, with commands arriving meanwhile
SyncNext == \E c \in Conns : SyncLoop(c) \/ Messages(c, SyncFrames) \/ OnClose(c)
SyncSpec == InitSession /\ [][SyncNext]_vars

\* the same, with every external call of a poll completing in the end:
\* wait_for_sync_for_user returns at the latest when its timeout expires
FairSyncSpec ==
  /\ SyncSpec
  /\ \A c \in Conns, i \in 1..MaxPolls :
        WF_vars(UserSyncingReturns(c, i)) /\ WF_vars(SyncReturns(c, i))

\* the same, with the reactor also running every delayed call in the end
LiveSyncSpec ==
  /\ FairSyncSpec
  /\ \A c \in Conns : WF_vars(CallLaterSync(c))

\* the cached writes of all the factory's sessions
TxnNext == \E c \in Conns : Messages(c, TxnFrames) \/ OnClose(c)
TxnSpec == InitOpen /\ [][TxnNext]_vars

\* ------------------------------------------------------------------ claims
Reqs == {<<c, i>> : c \in Conns, i \in 1..MaxMsgs} \cap
        UNION {{<<c, i>> : i \in DOMAIN reqs[c]} : c \in Conns}
Req(x) == reqs[x[1]][x[2]]
\* the envelopes sendMessage was given in answer to request x
EnvelopesOf(x) ==
  {responses[x[1]][n].env : n \in {n \in DOMAIN responses[x[1]] : responses[x[1]][n].req = x[2]}}
IsWrite(x) ==
  /\ Req(x).msg.kind = "json" /\ Req(x).msg.method \in {"send", "state"}
  /\ Req(x).msg.id # "missing"
\* same message id, same user, same credential
SameTxn(x, y) ==
  /\ IsWrite(x) /\ IsWrite(y)
  /\ Req(x).msg.id = Req(y).msg.id
  /\ conn[x[1]].requester = conn[y[1]].requester
\* the event-creation calls made for the transaction of request x
CreationsOf(x) ==
  {n \in DOMAIN created : /\ created[n].requester = conn[x[1]].requester
                          /\ created[n].txn_id = Req(x).msg.id}

\* C1: requests that carry the same message id from the same user and the
\* same credential cause at most one event-creation call, and the envelopes
\* sent in answer to them are identical.
C1_Idempotent ==
  \A x \in Reqs, y \in Reqs :
    SameTxn(x, y) =>
      /\ Cardinality(CreationsOf(x)) <= 1
      /\ \A e1 \in EnvelopesOf(x), e2 \in EnvelopesOf(y) : e1 = e2

\* two requests of one transaction are answered, with an event id, after the
\* one creation
C1_Witness ==
  \E x \in Reqs, y \in Reqs :
    /\ x # y /\ SameTxn(x, y)
    /\ Req(x).pc = "responded" /\ Req(y).pc = "responded"
    /\ Cardinality(CreationsOf(x)) = 1
    /\ \E e \in EnvelopesOf(y) : e.shape = "result" /\ e.event_id > 0

\* C2: while the execution of a transaction is suspended on an external call,
\* every other request of that transaction waits for that one execution: the
\* operation is started by one request only, and a waiting request always has
\* its execution in flight, so that it receives the outcome.
C2_SingleFlight ==
  /\ \A x \in Reqs, y \in Reqs :
       (x # y /\ SameTxn(x, y)) => ~(Req(x).executor /\ Req(y).executor)
  /\ \A x \in Reqs :
       Req(x).pc = "txn" =>
         \E y \in Reqs : SameTxn(x, y) /\ Req(y).executor /\ Req(y).pc \in Services
  /\ \A x \in Reqs : IsWrite(x) => Cardinality(CreationsOf(x)) <= 1

\* a request on one connection waits for the execution another connection
\* started and that is suspended in the event-creation call
C2_Witness ==
  \E x \in Reqs, y \in Reqs :
    /\ x[1] # y[1] /\ SameTxn(x, y)
    /\ Req(x).pc = "txn" /\ Req(y).executor /\ Req(y).pc = "create"

\* ---- handshake
Finished(c) == conn[c].hpc \in {"returned", "raised"}
\* onConnect returned a subprotocol or None: the transport accepts
Accepted(c) == conn[c].ret \in {"m.json", "None"}
CloseCodeSet == {CLOSE_NO_AT, CLOSE_UNKNOWN_AT, CLOSE_UNKNOWN_FAIL}
OneCloseCode(c) == Len(conn[c].closeCodes) = 1 /\ conn[c].closeCodes[1] \in CloseCodeSet
\* the external sync call was issued for connection c
SyncCalled(c) == \E i \in DOMAIN polls[c] : polls[c][i].called

\* C3: every finished handshake is either accepted, with no close code sent,
\* or has sent exactly one close code among 3001/3002/3003 and is not
\* accepted; never both, never neither.
C3_ExactlyOneOutcome ==
  \A c \in Conns :
    Finished(c) =>
      \/ Accepted(c) /\ conn[c].closeCodes = <<>>
      \/ ~Accepted(c) /\ OneCloseCode(c)

\* C4: a handshake without access_token sends close code 3001 and nothing
\* else, performs no credential validation, filter lookup, client-IP record
\* or presence announcement, and never issues an external sync call.
C4_NoCredential ==
  \A c \in Conns :
    conn[c].access_token = "None" =>
      /\ conn[c].closeCodes = <<CLOSE_NO_AT>>
      /\ conn[c].calls = {}
      /\ polls[c] = <<>> /\ markers[c] = 0 /\ pushes[c] = <<>>

\* the credential-less connection 1 has been through onConnect and onOpen
C4_Witness ==
  /\ conn[1].access_token = "None" /\ conn[1].hpc = "returned" /\ conn[1].opened

\* C5: a failed credential validation closes with 3002 for an AuthError and
\* with 3003 for any other failure; the session is never opened and no sync
\* loop is started.
C5_AuthFailure ==
  \A c \in Conns :
    /\ conn[c].auth = "AuthError" => conn[c].closeCodes = <<CLOSE_UNKNOWN_AT>>
    /\ conn[c].auth = "Exception" => conn[c].closeCodes = <<CLOSE_UNKNOWN_FAIL>>
    /\ conn[c].auth \in {"AuthError", "Exception"} =>
         /\ ~conn[c].opened /\ ~conn[c].shouldSync
         /\ polls[c] = <<>> /\ ~SyncCalled(c)

\* ---- commands
JsonReqs == { x \in Reqs : Req(x).msg.kind = "json" }
FinishedReq(x) == Req(x).pc \in {"responded", "escaped", "ignored"}
ResponsesTo(x) == { n \in DOMAIN responses[x[1]] : responses[x[1]][n].req = x[2] }

\* C6: every JSON envelope that carries an id and whose handling has ended
\* has exactly one response, with that same id, whatever its method and
\* params; and every response carries the id of the request it answers.
C6_Symmetry ==
  /\ \A x \in JsonReqs :
       (FinishedReq(x) /\ Req(x).msg.id # "missing") =>
         /\ Cardinality(ResponsesTo(x)) = 1
         /\ \A n \in ResponsesTo(x) : responses[x[1]][n].env.id = Req(x).msg.id
  /\ \A c \in Conns : \A n \in DOMAIN responses[c] :
       /\ responses[c][n].req \in DOMAIN reqs[c]
       /\ responses[c][n].env.id = reqs[c][responses[c][n].req].msg.id

\* C10: no failure raised while a command is handled leaves onMessage
\* unanswered: the handling of every JSON envelope ends with a response on
\* the connection, never with the exception escaping the handler.
C10_Contained ==
  \A x \in JsonReqs :
    FinishedReq(x) => (Req(x).pc = "responded" /\ ResponsesTo(x) # {})

\* ---- sync loop
Pushed(c) == { pushes[c][n].poll : n \in DOMAIN pushes[c] }

UnknownReqs ==
  { x \in JsonReqs : /\ Req(x).msg.method \notin supported_methods \cup {"missing"}
                     /\ Req(x).msg.id # "missing" }
\* the one response to request x is env, and x invoked no handler or service
AnsweredOnlyWith(x, env) ==
  /\ Req(x).pc = "responded"
  /\ Req(x).svc = <<>> /\ ~Req(x).executor
  /\ Cardinality(ResponsesTo(x)) = 1
  /\ \A n \in ResponsesTo(x) : responses[x[1]][n].env = env

\* C11 (as amended): a request whose method is not one of the six supported
\* ones is answered with {id, error: {errcode: "M_BAD_JSON", error: "Unknown
\* method"}}, and no handler and no external service is invoked for it.
C11_UnknownMethod ==
  \A x \in UnknownReqs :
    AnsweredOnlyWith(x, ErrorEnvelope(Req(x).msg.id, "M_BAD_JSON", "Unknown method"))

\* C11 (as stated): the errcode of that response is "bad request".
C11_UnknownMethodBadRequest ==
  \A x \in UnknownReqs :
    AnsweredOnlyWith(x, ErrorEnvelope(Req(x).msg.id, "bad request", "Unknown method"))

\* a request with method "bogus" has been answered
C11_Witness ==
  \E x \in UnknownReqs : Req(x).msg.method = "bogus" /\ ResponsesTo(x) # {}

\* ---- ordering of commands
\* the requests of connection c whose handler is suspended on an external
\* call or on the transaction cache
Suspended(c) == { i \in DOMAIN reqs[c] : reqs[c][i].pc \in Services \cup {"txn"} }

\* C12: the envelopes of one connection are handled one after the other: no
\* two handlers of a connection are suspended at the same time, and the
\* responses of a connection are sent in the order the requests arrived.
C12_ArrivalOrder ==
  \A c \in Conns :
    /\ Cardinality(Suspended(c)) <= 1
    /\ \A n \in DOMAIN responses[c], k \in DOMAIN responses[c] :
         n < k => responses[c][n].req < responses[c][k].req

\* ---- subprotocol and filter at the handshake
\* C13: when the handshake reaches the negotiation, an offer containing
\* "m.json" is accepted with subprotocol "m.json"; a non-empty offer without
\* "m.json" fails the handshake and the session is never opened; an empty
\* offer is accepted with no subprotocol.
C13_Subprotocol ==
  \A c \in Conns :
    conn[c].negotiated =>
      /\ "m.json" \in conn[c].protocols =>
            (conn[c].hpc = "returned" /\ conn[c].ret = "m.json")
      /\ (conn[c].protocols # {} /\ "m.json" \notin conn[c].protocols) =>
            (conn[c].hpc = "raised" /\ ~conn[c].opened /\ polls[c] = <<>>)
      /\ conn[c].protocols = {} =>
            (conn[c].hpc = "returned" /\ conn[c].ret = "None")

\* an offer without m.json has been refused
C13_Witness ==
  /\ conn[1].negotiated /\ conn[1].protocols = {"v1"} /\ conn[1].hpc = "raised"

\* ---- failures under the transaction cache
\* request x ran the operation itself and it failed
RanAndFailed(x) ==
  /\ IsWrite(x) /\ Req(x).pc = "responded" /\ Req(x).svc # <<>>
  /\ \A e \in EnvelopesOf(x) : e.shape = "error"

\* C14: when the execution of a send or state request has failed, every
\* other request with the same transaction key invokes no service of its
\* own and, once answered, has received the same error envelope.
C14_FailureCached ==
  \A x \in Reqs, y \in Reqs :
    (x # y /\ SameTxn(x, y) /\ RanAndFailed(x)) =>
      /\ Req(y).svc = <<>>
      /\ Req(y).pc = "responded" => EnvelopesOf(y) = EnvelopesOf(x)

\* a request on the other connection was answered from the stored failure
C14_Witness ==
  \E x \in Reqs, y \in Reqs :
    /\ x[1] # y[1] /\ SameTxn(x, y) /\ RanAndFailed(x)
    /\ Req(y).pc = "responded" /\ Req(y).svc = <<>>
    /\ \E e \in EnvelopesOf(y) : e.shape = "error" /\ e.errcode = "M_FORBIDDEN"

\* ---- presence command
PresenceReqs ==
  { x \in JsonReqs : Req(x).msg.method = "presence" /\ Req(x).msg.id # "missing" }
ExtraKeys(x) == Req(x).msg.params.keys \ {"presence", "status_msg"}
LacksPresence(x) == "presence" \notin Req(x).msg.params.keys
BadStatusMsg(x) ==
  "status_msg" \in Req(x).msg.params.keys /\ ~Req(x).msg.params.status_str
\* request x was answered with one error envelope and called no service
Rejected(x) ==
  /\ Req(x).pc = "responded" /\ Req(x).svc = <<>>
  /\ Cardinality(ResponsesTo(x)) = 1
  /\ \A e \in EnvelopesOf(x) : e.shape = "error" /\ e.errcode # "" /\ e.error # ""
\* connection c's presence intent changes in this step
PresenceSetBy(c, i) ==
  /\ reqs[c][i].msg.method = "presence" /\ reqs[c][i].pc = "set_state"
  /\ reqs'[c][i].pc \in {"responded", "escaped"}
  /\ conn'[c].presence = reqs[c][i].msg.params.presence
  /\ reqs'[c][i].pc = "responded" =>
        \E n \in DOMAIN responses'[c] :
          responses'[c][n].req = i /\ responses'[c][n].env.shape = "result"

\* C15: a presence request with a further key, without `presence` or with a
\* non-string status_msg is answered with an error envelope and set_state
\* is not called for it ("Too many keys" when the further key is its only
\* defect); the session's presence intent changes only when the set_state
\* of a presence request has succeeded, and then to the requested value.
C15_PresenceValidation ==
  /\ [](\A x \in PresenceReqs :
          /\ (ExtraKeys(x) # {} \/ LacksPresence(x) \/ BadStatusMsg(x)) => Rejected(x)
          /\ (ExtraKeys(x) # {} /\ ~LacksPresence(x) /\ ~BadStatusMsg(x)) =>
                \A e \in EnvelopesOf(x) : e.errcode = "M_BAD_JSON" /\ e.error = "Too many keys")
  /\ [][\A c \in Conns :
          conn'[c].presence # conn[c].presence =>
            \E i \in DOMAIN reqs[c] : PresenceSetBy(c, i)]_vars

\* a request with the further key "device" was refused and the session's
\* presence intent is not the requested one
C15_Witness ==
  \E x \in PresenceReqs :
    /\ x[1] = 1 /\ ExtraKeys(x) = {"device"} /\ Rejected(x)
    /\ \E e \in EnvelopesOf(x) : e.error = "Too many keys"
    /\ conn[1].presence # Req(x).msg.params.presence

\* ---- typing command
TypingReqs == { x \in JsonReqs : Req(x).msg.method = "typing" }
\* request x has called the external service svc
HasCalled(x, svc) == \E n \in DOMAIN Req(x).svc : Req(x).svc[n] = svc
NotForwarded == -1

\* C16: a typing request with typing = true calls started_typing with the
\* timeout min(requested, 120000), 30000 standing for a timeout not given;
\* with typing = false it calls stopped_typing and forwards no timeout.
C16_TypingTimeout ==
  \A x \in TypingReqs :
    LET params == Req(x).msg.params
        requested == IF params.has_timeout THEN params.timeout ELSE 30000
    IN /\ HasCalled(x, "started_typing") =>
            /\ params.typing
            /\ Req(x).fwd_timeout = (IF requested < 120000 THEN requested ELSE 120000)
            /\ Req(x).fwd_timeout <= 120000
       /\ HasCalled(x, "stopped_typing") =>
            (~params.typing /\ Req(x).fwd_timeout = NotForwarded)
       /\ ~(HasCalled(x, "started_typing") /\ HasCalled(x, "stopped_typing"))
       /\ (Req(x).pc = "responded" /\ \E e \in EnvelopesOf(x) : e.shape = "result") =>
            IF params.typing THEN HasCalled(x, "started_typing")
            ELSE HasCalled(x, "stopped_typing")

\* the timeout 999999999 was forwarded as 120000
C16_Witness ==
  \E x \in TypingReqs :
    /\ Req(x).msg.params.has_timeout /\ Req(x).msg.params.timeout > 120000
    /\ HasCalled(x, "started_typing") /\ Req(x).fwd_timeout = 120000

\* ---- response shapes
\* C17: every response envelope is {id, result} or {id, error} with an
\* errcode and an error message, the responses of the state handler
\* included.
C17_TwoShapes ==
  \A c \in Conns : \A n \in DOMAIN responses[c] :
    LET e == responses[c][n].env
    IN /\ e.shape \in {"result", "error"}
       /\ e.shape = "error" => (e.errcode # "" /\ e.error # "")

\* ---- filter at the handshake
BadFilter(c) == conn[c].filterParam \in {"inline_badjson", "inline_invalid"}

\* C18: a handshake whose filter parameter starts with '{' and is not valid
\* JSON, or is not a valid filter, is refused: onConnect raises, the
\* session is never opened, no sync call is issued, and neither the
\* client-IP record nor the presence announcement is made.
C18_InvalidFilter ==
  \A c \in Conns :
    BadFilter(c) =>
      /\ conn[c].hpc = "raised"
      /\ ~conn[c].opened /\ ~conn[c].shouldSync
      /\ polls[c] = <<>> /\ ~SyncCalled(c) /\ markers[c] = 0
      /\ conn[c].calls \cap {"insert_client_ip", "set_state", "user_syncing",
                              "wait_for_sync_for_user"} = {}

\* the handshake with a filter that is not JSON has been refused
C18_Witness ==
  /\ conn[1].filterParam = "inline_badjson" /\ conn[1].hpc = "raised"
  /\ conn[1].auth = "ok"

\* ---- frames that are not JSON text
\* connection c receives a frame in this step
Arrives(c) == Len(reqs'[c]) = Len(reqs[c]) + 1
Arrived(c) == reqs'[c][Len(reqs'[c])]
NotJson(f) == f.kind \in {"binary", "notjson"}

\* C19: a binary frame, or a text frame that is not JSON, is dropped:
\* onMessage returns, nothing is sent, no handler or service runs, and the
\* session (cursor, presence, polls), the other requests and the
\* transaction cache are as before; the connection stays open.
C19_Ignored ==
  /\ [][\A c \in Conns :
          (Arrives(c) /\ NotJson(Arrived(c).msg)) =>
            /\ Arrived(c).pc = "ignored" /\ Arrived(c).svc = <<>>
            /\ reqs' = [reqs EXCEPT ![c] = Append(@, Arrived(c))]
            /\ UNCHANGED <<conn, polls, pushes, scheduled, markers, responses, txns, created>>
            /\ ~conn'[c].closed]_vars
  /\ [](\A x \in Reqs : NotJson(Req(x).msg) => (Req(x).pc = "ignored" /\ ResponsesTo(x) = {}))

\* a text frame that is not JSON arrived while a poll was in progress
C19_Witness ==
  \E x \in Reqs :
    /\ x[1] = 1 /\ Req(x).msg.kind = "notjson" /\ Req(x).pc = "ignored"
    /\ \E i \in DOMAIN polls[1] : polls[1][i].pc = "sync"
    /\ ~conn[1].closed

\* ---- failure of the sync call
\* poll i of connection c was called and its sync call failed
SyncFailed(c, i) ==
  /\ i \in DOMAIN polls[c]
  /\ polls[c][i].called /\ polls[c][i].pc = "failed" /\ polls[c][i].deferred = "failed"

InProgress(c) == { i \in DOMAIN polls[c] : polls[c][i].pc = "sync" }

CalledPolls(c) == { i \in DOMAIN polls[c] : polls[c][i].called }

NoFilterAccepted(c) ==
  /\ conn[c].auth = "ok" /\ conn[c].filterParam = "absent"
  /\ conn[c].hpc = "returned" /\ conn[c].closeCodes = <<>>

\* C24: after a successful handshake without a filter parameter the session
\* uses the default filter, and once the connection is open the initial poll
\* has been started (on its way to the initial sync call).
C24_DefaultFilterSyncs ==
  \A c \in Conns :
    NoFilterAccepted(c) =>
      /\ conn[c].filter = "default"
      /\ conn[c].opened =>
           /\ ~conn[c].openRaised
           /\ polls[c] # <<>> /\ polls[c][1].initial
           /\ "user_syncing" \in conn[c].calls

\* ---- liveness of the push loop
\* the result of poll i of connection c was pushed
Delivered(c, i) == i \in Pushed(c)
\* connection c is open and none of its external calls has failed
Healthy(c) ==
  /\ ~conn[c].closed
  /\ \A j \in DOMAIN polls[c] : polls[c][j].pc # "failed"
\* the sync call after poll i was issued with the cursor poll i pushed
Advanced(c, i) ==
  /\ i + 1 \in CalledPolls(c)
  /\ Delivered(c, i)
  /\ \E k \in DOMAIN pushes[c] :
        pushes[c][k].poll = i /\ polls[c][i + 1].since_token = pushes[c][k].next_batch

Active(c) == { i \in DOMAIN polls[c] : polls[c][i].pc \in {"user_syncing", "sync"} }
\* a poll of connection c is started in this step
PollStarts(c) == Len(polls'[c]) > Len(polls[c])

CrossMethod(x, y) ==
  /\ SameTxn(x, y)
  /\ Req(x).msg.method # Req(y).msg.method
  /\ Req(x).executor

\* C27: the transaction key does not contain the method: of a send and a
\* state with the same message id from the same user and credential, the
\* one that arrives second has the key of the first, runs no operation of
\* its own (no service is called for it, nothing is created by its method)
\* and is answered with the envelope the first one is answered with.
C27_KeyIgnoresMethod ==
  \A x \in Reqs, y \in Reqs :
    CrossMethod(x, y) =>
      /\ Req(y).key = Req(x).key
      /\ ~Req(y).executor /\ Req(y).svc = <<>>
      /\ Req(y).pc \in {"txn", "responded"}
      /\ Cardinality(CreationsOf(y)) <= 1
      /\ Req(y).pc = "responded" =>
           /\ Req(x).pc = "responded"
           /\ EnvelopesOf(y) # {} /\ EnvelopesOf(y) = EnvelopesOf(x)
\* a state that reused the message id of a send was answered with the event
\* id the send created
C27_Witness ==
  \E x \in Reqs, y \in Reqs :
    /\ CrossMethod(x, y)
    /\ Req(x).msg.method = "send" /\ Req(y).msg.method = "state"
    /\ Req(y).pc = "responded"
    /\ Cardinality(CreationsOf(y)) = 1
    /\ \E e \in EnvelopesOf(y) : e.shape = "result" /\ e.event_id > 0
====
